---- MODULE Spec2Model ----
(***************************************************************************)
(* Model of the rule engine of process_emails.py (class EmailProcessor):   *)
(* the condition evaluator, the rule matcher, the action dispatcher with   *)
(* its label cache, and the processing loop over a fetched batch.          *)
(*                                                                         *)
(* Python strings are sequences of one-character strings, so that lower(), *)
(* upper(), split(), int(), "in", startswith and endswith are computed.    *)
(* A Python dict is a function; dict.get(k) on an absent key is a test of  *)
(* DOMAIN.  An instant is an integer number of half-days.                  *)
(***************************************************************************)
EXTENDS Integers, Sequences, FiniteSets, TLC

(***************************************************************************)
(* Bounds of the model.                                                    *)
(***************************************************************************)
MaxEmails == 2      \* longest fetched batch
MaxRules == 2       \* longest rule file
MaxClockSteps == 1  \* how far the wall clock may advance during one pass

(***************************************************************************)
(* Python str operations.                                                  *)
(***************************************************************************)
UpperAlpha ==
    <<"A","B","C","D","E","F","G","H","I","J","K","L","M",
      "N","O","P","Q","R","S","T","U","V","W","X","Y","Z">>

LowerAlpha ==
    <<"a","b","c","d","e","f","g","h","i","j","k","l","m",
      "n","o","p","q","r","s","t","u","v","w","x","y","z">>

ToLower ==
    [c \in {UpperAlpha[i] : i \in 1..26} |->
        LowerAlpha[CHOOSE i \in 1..26 : UpperAlpha[i] = c]]

ToUpper ==
    [c \in {LowerAlpha[i] : i \in 1..26} |->
        UpperAlpha[CHOOSE i \in 1..26 : LowerAlpha[i] = c]]

LowerChar(c) == IF c \in DOMAIN ToLower THEN ToLower[c] ELSE c

UpperChar(c) == IF c \in DOMAIN ToUpper THEN ToUpper[c] ELSE c

\* str.lower()
Lower(s) == [i \in 1..Len(s) |-> LowerChar(s[i])]

\* str.upper()
Upper(s) == [i \in 1..Len(s) |-> UpperChar(s[i])]

\* text.startswith(p)
StartsWith(text, p) ==
    /\ Len(p) <= Len(text)
    /\ SubSeq(text, 1, Len(p)) = p

\* text.endswith(p)
EndsWith(text, p) ==
    /\ Len(p) <= Len(text)
    /\ SubSeq(text, Len(text) - Len(p) + 1, Len(text)) = p

\* p in text
Contains(text, p) ==
    \E i \in 1..(Len(text) - Len(p) + 1) : SubSeq(text, i, i + Len(p) - 1) = p

\* str.split(): the maximal runs of non-blank characters, in order
RECURSIVE SplitFrom(_, _, _)
SplitFrom(s, i, cur) ==
    IF i > Len(s)
    THEN IF cur = <<>> THEN <<>> ELSE <<cur>>
    ELSE IF s[i] = " "
         THEN IF cur = <<>>
              THEN SplitFrom(s, i + 1, <<>>)
              ELSE <<cur>> \o SplitFrom(s, i + 1, <<>>)
         ELSE SplitFrom(s, i + 1, Append(cur, s[i]))

Split(s) == SplitFrom(s, 1, <<>>)

DigitChars == <<"0","1","2","3","4","5","6","7","8","9">>

IsDigit(c) == \E d \in 1..10 : DigitChars[d] = c

DigitVal(c) == (CHOOSE d \in 1..10 : DigitChars[d] = c) - 1

RECURSIVE DigitsVal(_)
DigitsVal(s) ==
    IF s = <<>> THEN 0
    ELSE 10 * DigitsVal(SubSeq(s, 1, Len(s) - 1)) + DigitVal(s[Len(s)])

\* int(tok) of a token without blanks: an optional sign, then digits;
\* anything else raises ValueError
IntBody(tok) ==
    IF tok # <<>> /\ tok[1] \in {"+", "-"} THEN Tail(tok) ELSE tok

IntParses(tok) ==
    /\ IntBody(tok) # <<>>
    /\ \A i \in 1..Len(IntBody(tok)) : IsDigit(IntBody(tok)[i])

IntOf(tok) ==
    IF tok[1] = "-" THEN 0 - DigitsVal(IntBody(tok)) ELSE DigitsVal(IntBody(tok))

\* dict.get(key, default)
DictGet(d, key, default) == IF key \in DOMAIN d THEN d[key] ELSE default

(***************************************************************************)
(* String literals of process_emails.py.                                   *)
(***************************************************************************)
S_contains == <<"c","o","n","t","a","i","n","s">>
S_startswith == <<"s","t","a","r","t","s","w","i","t","h">>
S_endswith == <<"e","n","d","s","w","i","t","h">>
S_equals == <<"e","q","u","a","l","s">>
S_noreply == <<"n","o","r","e","p","l","y">>
S_no_reply == <<"n","o","-","r","e","p","l","y">>
S_from == <<"f","r","o","m">>
S_subject == <<"s","u","b","j","e","c","t">>
S_received_date == <<"r","e","c","e","i","v","e","d"," ","d","a","t","e">>
S_last == <<"l","a","s","t">>
S_older_than == <<"o","l","d","e","r"," ","t","h","a","n">>
S_ALL == <<"A","L","L">>
S_ANY == <<"A","N","Y">>
S_SPAM == <<"S","P","A","M">>
S_TRASH == <<"T","R","A","S","H">>
S_IMPORTANT == <<"I","M","P","O","R","T","A","N","T">>
S_INBOX == <<"I","N","B","O","X">>
S_UNREAD == <<"U","N","R","E","A","D">>

\* self.system_labels
system_labels ==
    [n \in {S_SPAM, S_TRASH, S_IMPORTANT, S_INBOX} |-> n]

\* timedelta(days=1), in instants
DayLen == 2

(***************************************************************************)
(* Condition evaluator.  A JSON value is a string or a list of strings:    *)
(* [kind |-> "str", s |-> chars, items |-> <<>>] or                        *)
(* [kind |-> "list", s |-> <<>>, items |-> sequence of chars].             *)
(***************************************************************************)
StrValue(s) == [kind |-> "str", s |-> s, items |-> <<>>]

ListValue(items) == [kind |-> "list", s |-> <<>>, items |-> items]

\* Python truth value of a JSON value: "" and [] are false
Truthy(values) ==
    IF values.kind = "str" THEN values.s # <<>> ELSE values.items # <<>>

\* line 72 testing "noreply" alone
match_string_condition_one_spelling(condition, values, text) ==
    IF text = <<>> \/ ~Truthy(values) THEN FALSE
    ELSE LET t == Lower(text)
             c == Lower(condition)
             vals == IF values.kind = "str" THEN <<values.s>> ELSE values.items
         IN  IF c = S_contains
             THEN \E i \in 1..Len(vals) : Contains(t, Lower(vals[i]))
             ELSE IF c = S_startswith
             THEN \E i \in 1..Len(vals) : StartsWith(t, Lower(vals[i]))
             ELSE IF c = S_endswith
             THEN \E i \in 1..Len(vals) : EndsWith(t, Lower(vals[i]))
             ELSE IF c = S_equals
             THEN \E i \in 1..Len(vals) : t = Lower(vals[i])
             ELSE IF c = S_noreply
             THEN Contains(t, S_noreply)
             ELSE FALSE

match_string_condition(condition, values, text) ==
    IF text = <<>> \/ ~Truthy(values) THEN FALSE
    ELSE LET t == Lower(text)
             c == Lower(condition)
             vals == IF values.kind = "str" THEN <<values.s>> ELSE values.items
         IN  IF c = S_contains
             THEN \E i \in 1..Len(vals) : Contains(t, Lower(vals[i]))
             ELSE IF c = S_startswith
             THEN \E i \in 1..Len(vals) : StartsWith(t, Lower(vals[i]))
             ELSE IF c = S_endswith
             THEN \E i \in 1..Len(vals) : EndsWith(t, Lower(vals[i]))
             ELSE IF c = S_equals
             THEN \E i \in 1..Len(vals) : t = Lower(vals[i])
             ELSE IF c = S_noreply
             THEN Contains(t, S_noreply) \/ Contains(t, S_no_reply)
             ELSE FALSE

(***************************************************************************)
(* Range of Python's datetime arithmetic.  timedelta(days=N) raises        *)
(* OverflowError when N is beyond timedelta.max, and now - timedelta       *)
(* raises OverflowError when the result is before datetime.min (year 1) or *)
(* after datetime.max (year 9999).  Instant 0 is the start of the pass, on *)
(* day 739921 of the proleptic Gregorian calendar.                         *)
(***************************************************************************)
TimedeltaMaxDays == 999999999

DaysSinceDatetimeMin == 739920

DaysUntilDatetimeMax == 2912138

\* now - timedelta(days=days) raises OverflowError
date_arith_raises(days, now) ==
    \/ days > TimedeltaMaxDays
    \/ days < 0 - TimedeltaMaxDays
    \/ now - days * DayLen < 0 - DaysSinceDatetimeMin * DayLen
    \/ now - days * DayLen > DaysUntilDatetimeMax * DayLen

(***************************************************************************)
(* Rule matcher for one condition.  email_date is the parsed instant of    *)
(* the message, now the value datetime.now() returns on line 154.  The     *)
(* operators month, year and equals of lines 168-173 compare strftime      *)
(* output; no condition of the rule catalogue below uses them.             *)
(***************************************************************************)
match_rule(rule, sender, subject, email_date, now) ==
    LET field == Lower(rule.field)
        condition == Lower(rule.condition)
        value == rule.value
        tokens == Split(condition)
    IN  IF field = S_from
        THEN match_string_condition(condition, value, sender)
        ELSE IF field = S_subject
        THEN match_string_condition(condition, value, subject)
        ELSE IF field = S_received_date
        THEN IF StartsWith(condition, S_last)
             THEN IF Len(tokens) >= 2 /\ IntParses(tokens[2])
                  THEN email_date >= now - IntOf(tokens[2]) * DayLen
                  ELSE FALSE
             ELSE IF StartsWith(condition, S_older_than)
             THEN IF Len(tokens) >= 3 /\ IntParses(tokens[3])
                  THEN email_date <= now - IntOf(tokens[3]) * DayLen
                  ELSE FALSE
             ELSE FALSE
        ELSE FALSE

\* lines 156-167 catch ValueError and IndexError only: the OverflowError of
\* the date arithmetic leaves _match_rule
match_rule_raises(rule, now) ==
    LET condition == Lower(rule.condition)
        tokens == Split(condition)
    IN  /\ Lower(rule.field) = S_received_date
        /\ IF StartsWith(condition, S_last)
           THEN /\ Len(tokens) >= 2
                /\ IntParses(tokens[2])
                /\ date_arith_raises(IntOf(tokens[2]), now)
           ELSE /\ StartsWith(condition, S_older_than)
                /\ Len(tokens) >= 3
                /\ IntParses(tokens[3])
                /\ date_arith_raises(IntOf(tokens[3]), now)

(***************************************************************************)
(* Action dispatcher.  A request to the Gmail service is logged as         *)
(* [op, gmail_id, arg, ok]: op is "remove_marker" or "add_label"           *)
(* (messages().modify with removeLabelIds / addLabelIds) or "create_label" *)
(* (labels().create); ok tells whether execute() returned or raised.       *)
(* A dispatcher operator returns the label cache, the requests it issued,  *)
(* the service's label-id counter and whether an exception left it.        *)
(***************************************************************************)
\* Python's None, the result of dict.get on an absent key
None == [py_none |-> TRUE]

Call(op, gmail_id, arg, ok) ==
    [op |-> op, gmail_id |-> gmail_id, arg |-> arg, ok |-> ok]

\* response["id"] of labels().create: an id the service has not used
NewLabelId(n) == <<"L", DigitChars[n + 1]>>

CachePut(cache, name, id) ==
    [k \in DOMAIN cache \cup {name} |-> IF k = name THEN id ELSE cache[k]]

Outcome(cache, calls, nextId, raised) ==
    [cache |-> cache, calls |-> calls, nextId |-> nextId, raised |-> raised]

\* _create_label with the cache looked up under the name as written
create_label_as_written(label_name, cache, nextId, ok) ==
    IF label_name \in DOMAIN cache
    THEN Outcome(cache, <<>>, nextId, FALSE)
    ELSE IF ok
    THEN Outcome(CachePut(cache, Upper(label_name), NewLabelId(nextId)),
                 <<Call("create_label", "", label_name, TRUE)>>,
                 nextId + 1, FALSE)
    ELSE Outcome(cache, <<Call("create_label", "", label_name, FALSE)>>,
                 nextId, FALSE)

create_label(label_name, cache, nextId, ok) ==
    IF Upper(label_name) \in DOMAIN cache
    THEN Outcome(cache, <<>>, nextId, FALSE)
    ELSE IF ok
    THEN Outcome(CachePut(cache, Upper(label_name), NewLabelId(nextId)),
                 <<Call("create_label", "", label_name, TRUE)>>,
                 nextId + 1, FALSE)
    ELSE Outcome(cache, <<Call("create_label", "", label_name, FALSE)>>,
                 nextId, FALSE)

\* _apply_label requesting the addition even when the label is still absent
\* after _create_label, with the name in place of the id
apply_label_unchecked(gmail_id, label_name, cache, nextId, okCreate, okAdd) ==
    LET name == Upper(label_name)
        c == IF name \notin DOMAIN cache
             THEN create_label(name, cache, nextId, okCreate)
             ELSE Outcome(cache, <<>>, nextId, FALSE)
    IN  Outcome(c.cache,
                c.calls \o <<Call("add_label", gmail_id,
                                  DictGet(c.cache, name, name), okAdd)>>,
                c.nextId, FALSE)

apply_label(gmail_id, label_name, cache, nextId, okCreate, okAdd) ==
    LET name == Upper(label_name)
        c == IF name \notin DOMAIN cache
             THEN create_label(name, cache, nextId, okCreate)
             ELSE Outcome(cache, <<>>, nextId, FALSE)
    IN  IF name \in DOMAIN c.cache
        THEN Outcome(c.cache,
                     c.calls \o <<Call("add_label", gmail_id, c.cache[name], okAdd)>>,
                     c.nextId, FALSE)
        ELSE c

\* MoveTo with the folder looked up in system_labels as written
apply_move_to_as_written(gmail_id, folder, cache, nextId, oks) ==
    IF folder \in DOMAIN system_labels
    THEN Outcome(cache,
                 <<Call("add_label", gmail_id, system_labels[folder], oks[1])>>,
                 nextId, FALSE)
    ELSE apply_label(gmail_id, folder, cache, nextId, oks[1], oks[2])

apply_move_to(gmail_id, folder, cache, nextId, oks) ==
    IF Upper(folder) \in DOMAIN system_labels
    THEN Outcome(cache,
                 <<Call("add_label", gmail_id, system_labels[Upper(folder)], oks[1])>>,
                 nextId, FALSE)
    ELSE apply_label(gmail_id, folder, cache, nextId, oks[1], oks[2])

apply_create_label(gmail_id, label_name, cache, nextId, oks) ==
    LET c == create_label(label_name, cache, nextId, oks[1])
        a == apply_label(gmail_id, label_name, c.cache, c.nextId, oks[2], oks[3])
    IN  Outcome(a.cache, c.calls \o a.calls, a.nextId, FALSE)

\* _apply_rule_action without the try of line 179: a failed request raises
apply_rule_action_no_try(gmail_id, action, cache, nextId, oks) ==
    LET action_type == DictGet(action, "type", "None")
        o == IF action_type = "MarkAsRead"
             THEN Outcome(cache,
                          <<Call("remove_marker", gmail_id, S_UNREAD, oks[1])>>,
                          nextId, FALSE)
             ELSE IF action_type = "MoveTo"
             THEN apply_move_to(gmail_id, action.folder, cache, nextId, oks)
             ELSE IF action_type = "Archive"
             THEN Outcome(cache,
                          <<Call("remove_marker", gmail_id, S_INBOX, oks[1])>>,
                          nextId, FALSE)
             ELSE IF action_type = "CreateLabel"
             THEN apply_create_label(gmail_id, action.label, cache, nextId, oks)
             ELSE Outcome(cache, <<>>, nextId, FALSE)
    IN  Outcome(o.cache, o.calls, o.nextId,
                action = None \/ \E i \in 1..Len(o.calls) : ~o.calls[i].ok)

\* action.get("type") on line 178 is outside the try: with action = None the
\* AttributeError leaves the dispatcher
apply_rule_action(gmail_id, action, cache, nextId, oks) ==
    LET action_type == DictGet(action, "type", "None")
    IN  IF action = None
        THEN Outcome(cache, <<>>, nextId, TRUE)
        ELSE IF action_type = "MarkAsRead"
        THEN Outcome(cache,
                     <<Call("remove_marker", gmail_id, S_UNREAD, oks[1])>>,
                     nextId, FALSE)
        ELSE IF action_type = "MoveTo"
        THEN apply_move_to(gmail_id, action.folder, cache, nextId, oks)
        ELSE IF action_type = "Archive"
        THEN Outcome(cache,
                     <<Call("remove_marker", gmail_id, S_INBOX, oks[1])>>,
                     nextId, FALSE)
        ELSE IF action_type = "CreateLabel"
        THEN apply_create_label(gmail_id, action.label, cache, nextId, oks)
        ELSE Outcome(cache, <<>>, nextId, FALSE)

(***************************************************************************)
(* Inputs: the messages fetch_emails may return and the rules rules.json   *)
(* may hold.  date_received is the Date header: rfc2822 tells whether      *)
(* parsedate_to_datetime accepts it, instant is the time it denotes.       *)
(* fetch_emails stores "Unknown" for a message without a Date header.      *)
(***************************************************************************)
T_Hello == <<"H","e","l","l","o","@","x">>
T_hello == <<"h","e","l","l","o","@","x">>
T_NoReply == <<"N","o","R","e","p","l","y","@","x">>
T_No_Reply == <<"N","o","-","R","e","p","l","y">>
T_zzz == <<"z","z","z">>
T_HELLO == <<"H","E","L","L","O">>
T_Work == <<"W","o","r","k">>
T_work == <<"w","o","r","k">>
T_WORK == <<"W","O","R","K">>
T_spam == <<"s","p","a","m">>

Email(id, sender, subject, ok, instant) ==
    [gmail_id |-> id, sender |-> sender, subject |-> subject,
     date_received |-> [rfc2822 |-> ok, instant |-> instant]]

\* the messages of the mailbox
EmailCatalogue ==
    << Email("m1", T_Hello, T_No_Reply, TRUE, 0 - DayLen),
       Email("m2", T_hello, T_zzz, FALSE, 0),
       Email("m3", T_NoReply, <<>>, TRUE, 0) >>

Cond(field, condition, value) ==
    [field |-> field, condition |-> condition, value |-> value]

C_fromHello == Cond(<<"F","r","o","m">>, <<"C","o","n","t","a","i","n","s">>,
                    ListValue(<<T_zzz, T_HELLO>>))
C_subjectEnds == Cond(S_subject, S_endswith, ListValue(<<<<"Z","Z">>>>))
C_fromMatches == Cond(S_from, <<"m","a","t","c","h","e","s">>, StrValue(T_hello))
C_fromNoReply == Cond(S_from, <<"N","o","R","e","p","l","y">>, StrValue(<<"x">>))
C_subjectNoReply == Cond(S_subject, S_noreply, ListValue(<<<<"x">>>>))
C_subjectNoReplyEmpty == Cond(S_subject, S_noreply, StrValue(<<>>))
C_bodyHello == Cond(<<"b","o","d","y">>, S_contains, ListValue(<<T_hello>>))
C_last1 == Cond(<<"R","e","c","e","i","v","e","d"," ","D","a","t","e">>,
                <<"L","a","s","t"," ","1">>, StrValue(<<>>))
C_lastX == Cond(S_received_date, <<"l","a","s","t"," ","x">>, StrValue(<<>>))
C_older1 == Cond(S_received_date,
                 <<"o","l","d","e","r"," ","t","h","a","n"," ","1">>, StrValue(<<>>))
C_lastHuge == Cond(S_received_date, <<"l","a","s","t"," ","1","0","0","0","0","0","0">>,
                   StrValue(<<>>))
C_fromStarts == Cond(S_from, S_startswith, StrValue(T_hello))
C_fromEquals == Cond(S_from, S_equals, StrValue(<<"h","e","l","l","o","@","X">>))

\* a rule file; a rule without "predicate" or without "action" lacks the key
MasterRuleFile ==
    << [predicate |-> <<"A","l","l">>,
        conditions |-> <<C_fromHello, C_subjectEnds>>,
        action |-> [type |-> "Archive"]],
       [conditions |-> <<C_fromHello, C_fromMatches>>,
        action |-> [type |-> "CreateLabel", label |-> T_Work]],
       [predicate |-> <<"a","l","l">>, conditions |-> <<>>,
        action |-> [type |-> "MarkAsRead"]],
       [predicate |-> <<"b","o","g","u","s">>,
        conditions |-> <<C_fromNoReply, C_bodyHello>>,
        action |-> [type |-> "MoveTo", folder |-> T_spam]],
       [predicate |-> <<"a","n","y">>, conditions |-> <<C_last1>>,
        action |-> [type |-> "MarkAsRead"]],
       [predicate |-> S_ANY,
        conditions |-> <<C_lastX, C_fromEquals, C_fromStarts>>],
       [predicate |-> S_ALL, conditions |-> <<C_subjectNoReply, C_older1>>,
        action |-> [type |-> "CreateLabel", label |-> T_work]],
       [predicate |-> S_ANY, conditions |-> <<C_subjectNoReplyEmpty, C_last1>>,
        action |-> [type |-> "MoveTo", folder |-> T_WORK]],
       [predicate |-> S_ANY, conditions |-> <<C_lastHuge>>,
        action |-> [type |-> "Archive"]] >>

\* the sequences over S of length at most n
SeqsUpTo(S, n) == UNION { [1..k -> S] : k \in 0..n }

\* a fetched batch lists at most MaxEmails messages of the mailbox, each
\* once (Gmail ids are unique) and in the order of the mailbox: the positions
\* in EmailCatalogue of the messages of a batch
Batches ==
    { b \in SeqsUpTo(1..Len(EmailCatalogue), MaxEmails) :
        \A k \in 1..(Len(b) - 1) : b[k] < b[k + 1] }

\* the rule files made of at most MaxRules rules of the master file, in its
\* order: the positions in MasterRuleFile of the rules of a file
RuleFiles ==
    { jx \in SeqsUpTo(1..Len(MasterRuleFile), MaxRules) :
        \A k \in 1..(Len(jx) - 1) : jx[k] < jx[k + 1] }

\* what _get_existing_labels may return: nothing (the listing failed), or
\* the labels of the mailbox under their uppercased names
ExistingLabels ==
    { [n \in {} |-> n],
      [n \in {S_SPAM} |-> S_SPAM] }

(***************************************************************************)
(* State of one EmailProcessor and of one call of process_emails.          *)
(***************************************************************************)
VARIABLES
    fetched,          \* the batch fetch_emails returns, as a member of Batches
    loaded,           \* the rule file read, as a member of RuleFiles
    label_cache,      \* self.label_cache
    total_processed,  \* self.total_processed
    total_matched,    \* self.total_matched
    pc,               \* "start", "email" (line 90), "rule" (line 117), "done"
    mi,               \* position of the message in the batch
    ri,               \* rule_index
    ci,               \* position of the condition in the rule
    matches,          \* the list matches of line 125
    email_date,       \* the parsed date of the message
    clock,            \* the wall clock, as last read
    nextId,           \* label ids the service has handed out
    calls,            \* requests issued to the Gmail service, in order
    evals,            \* history: every condition evaluated, with its result
    verdicts,         \* history: every rule_matched computed on line 130
    dispatched        \* history: every call of _apply_rule_action

\* emails of line 79
emails == [i \in 1..Len(fetched) |-> EmailCatalogue[fetched[i]]]

\* self.rules
rules == [k \in 1..Len(loaded) |-> MasterRuleFile[loaded[k]]]

vars ==
    <<fetched, loaded, label_cache, total_processed, total_matched, pc, mi, ri,
      ci, matches, email_date, clock, nextId, calls, evals, verdicts,
      dispatched>>

loopVars == <<mi, ri, ci, matches, email_date>>

histVars == <<calls, evals, verdicts, dispatched>>

Init ==
    /\ fetched \in Batches
    /\ loaded \in RuleFiles
    /\ label_cache \in ExistingLabels
    /\ total_processed = 0
    /\ total_matched = 0
    /\ pc = "start"
    /\ mi = 1
    /\ ri = 1
    /\ ci = 1
    /\ matches = <<>>
    /\ email_date = 0
    /\ clock = 0
    /\ nextId = 1
    /\ calls = <<>>
    /\ evals = <<>>
    /\ verdicts = <<>>
    /\ dispatched = <<>>

\* lines 93-94 with the exception re-raised instead of logged
AfterEmailException_reraised(m) == [pc |-> "crashed", mi |-> m]

\* lines 93-94: an exception of process_single_email is logged and the loop
\* goes on with the next message
AfterEmailException(m) == [pc |-> "email", mi |-> m + 1]

\* line 130 without the upper() of line 118
rule_matched_case_sensitive(rule_set, results) ==
    IF DictGet(rule_set, "predicate", S_ANY) = S_ALL
    THEN \A i \in 1..Len(results) : results[i]
    ELSE \E i \in 1..Len(results) : results[i]

\* lines 118 and 130
rule_matched(rule_set, results) ==
    IF Upper(DictGet(rule_set, "predicate", S_ANY)) = S_ALL
    THEN \A i \in 1..Len(results) : results[i]
    ELSE \E i \in 1..Len(results) : results[i]

\* lines 79-85: an empty batch
EmptyBatch ==
    /\ pc = "start"
    /\ emails = <<>>
    /\ total_processed' = Len(emails)
    /\ total_matched' = 0
    /\ pc' = "done"
    /\ UNCHANGED <<fetched, loaded, label_cache, loopVars, clock, nextId, histVars>>

\* lines 79-90
StartPass ==
    /\ pc = "start"
    /\ emails # <<>>
    /\ total_processed' = Len(emails)
    /\ total_matched' = 0
    /\ pc' = "email"
    /\ mi' = 1
    /\ UNCHANGED <<fetched, loaded, label_cache, ri, ci, matches, email_date,
                   clock, nextId, histVars>>

\* lines 100-116: the Date header parses
ParseDateOk ==
    /\ pc = "email"
    /\ mi <= Len(emails)
    /\ emails[mi].date_received.rfc2822
    /\ email_date' = emails[mi].date_received.instant
    /\ pc' = "rule"
    /\ ri' = 1
    /\ ci' = 1
    /\ matches' = <<>>
    /\ UNCHANGED <<fetched, loaded, label_cache, total_processed, total_matched,
                   mi, clock, nextId, histVars>>

\* lines 110-114: the Date header does not parse, process_single_email
\* returns False
ParseDateFails ==
    /\ pc = "email"
    /\ mi <= Len(emails)
    /\ ~emails[mi].date_received.rfc2822
    /\ mi' = mi + 1
    /\ UNCHANGED <<fetched, loaded, label_cache, total_processed, total_matched,
                   pc, ri, ci, matches, email_date, clock, nextId, histVars>>

\* lines 118-123: a rule without conditions is skipped
SkipRule ==
    /\ pc = "rule"
    /\ ri <= Len(rules)
    /\ DictGet(rules[ri], "conditions", <<>>) = <<>>
    /\ ri' = ri + 1
    /\ UNCHANGED <<fetched, loaded, label_cache, total_processed, total_matched,
                   pc, mi, ci, matches, email_date, clock, nextId, histVars>>

\* lines 126-128: one condition; a ReceivedDate condition reads the wall
\* clock (line 154), which has not gone back since it was last read
EvalCondition ==
    /\ pc = "rule"
    /\ ri <= Len(rules)
    /\ ci <= Len(DictGet(rules[ri], "conditions", <<>>))
    /\ LET condition == rules[ri].conditions[ci]
           readsClock == Lower(condition.field) = S_received_date
       IN  \E now \in clock..MaxClockSteps :
             /\ readsClock \/ now = clock
             /\ ~match_rule_raises(condition, now)
             /\ clock' = now
             /\ LET match == match_rule(condition, emails[mi].sender,
                                        emails[mi].subject, email_date, now)
                IN  /\ matches' = Append(matches, match)
                    /\ evals' = Append(evals,
                                  [m |-> mi, r |-> ri, c |-> ci, now |-> now,
                                   res |-> match, raised |-> FALSE])
    /\ ci' = ci + 1
    /\ UNCHANGED <<fetched, loaded, label_cache, total_processed, total_matched,
                   pc, mi, ri, email_date, nextId, calls, verdicts, dispatched>>

\* lines 127 and 154-165: the date arithmetic of the condition raises
\* OverflowError, which leaves _match_rule and process_single_email
EvalConditionRaises ==
    /\ pc = "rule"
    /\ ri <= Len(rules)
    /\ ci <= Len(DictGet(rules[ri], "conditions", <<>>))
    /\ LET condition == rules[ri].conditions[ci]
           next == AfterEmailException(mi)
       IN  \E now \in clock..MaxClockSteps :
             /\ match_rule_raises(condition, now)
             /\ clock' = now
             /\ evals' = Append(evals,
                           [m |-> mi, r |-> ri, c |-> ci, now |-> now,
                            res |-> FALSE, raised |-> TRUE])
             /\ pc' = next.pc
             /\ mi' = next.mi
    /\ ci' = 1
    /\ matches' = <<>>
    /\ UNCHANGED <<fetched, loaded, label_cache, total_processed, total_matched,
                   ri, email_date, nextId, calls, verdicts, dispatched>>

AllEvaluated ==
    /\ pc = "rule"
    /\ ri <= Len(rules)
    /\ DictGet(rules[ri], "conditions", <<>>) # <<>>
    /\ ci > Len(rules[ri].conditions)

\* lines 130-132: the rule does not match
RuleNotMatched ==
    /\ AllEvaluated
    /\ ~rule_matched(rules[ri], matches)
    /\ verdicts' = Append(verdicts, [m |-> mi, r |-> ri, matched |-> FALSE])
    /\ ri' = ri + 1
    /\ ci' = 1
    /\ matches' = <<>>
    /\ UNCHANGED <<fetched, loaded, label_cache, total_processed, total_matched,
                   pc, mi, email_date, clock, nextId, calls, evals, dispatched>>

\* lines 132-137: the rule matches and its action is dispatched; oks are the
\* outcomes of the requests the dispatcher issues, in order
ApplyAction ==
    /\ AllEvaluated
    /\ rule_matched(rules[ri], matches)
    /\ \E oks \in [1..3 -> BOOLEAN] :
         LET o == apply_rule_action(emails[mi].gmail_id,
                                    DictGet(rules[ri], "action", None),
                                    label_cache, nextId, oks)
             next == AfterEmailException(mi)
         IN  /\ label_cache' = o.cache
             /\ nextId' = o.nextId
             /\ calls' = calls \o o.calls
             /\ IF o.raised
                THEN /\ pc' = next.pc
                     /\ mi' = next.mi
                     /\ UNCHANGED <<total_matched, ri>>
                ELSE /\ total_matched' = total_matched + 1
                     /\ ri' = ri + 1
                     /\ UNCHANGED <<pc, mi>>
    /\ verdicts' = Append(verdicts, [m |-> mi, r |-> ri, matched |-> TRUE])
    /\ dispatched' = Append(dispatched, <<mi, ri>>)
    /\ ci' = 1
    /\ matches' = <<>>
    /\ UNCHANGED <<fetched, loaded, total_processed, email_date, clock, evals>>

\* lines 139-142 and 90: every rule was seen, the next message
EndEmail ==
    /\ pc = "rule"
    /\ ri > Len(rules)
    /\ pc' = "email"
    /\ mi' = mi + 1
    /\ UNCHANGED <<fetched, loaded, label_cache, total_processed, total_matched,
                   ri, ci, matches, email_date, clock, nextId, histVars>>

\* lines 96-97: the summary
Finish ==
    /\ pc = "email"
    /\ mi > Len(emails)
    /\ pc' = "done"
    /\ UNCHANGED <<fetched, loaded, label_cache, total_processed, total_matched,
                   loopVars, clock, nextId, histVars>>

Next ==
    \/ EmptyBatch
    \/ StartPass
    \/ ParseDateOk
    \/ ParseDateFails
    \/ SkipRule
    \/ EvalCondition
    \/ EvalConditionRaises
    \/ RuleNotMatched
    \/ ApplyAction
    \/ EndEmail
    \/ Finish

Spec == Init /\ [][Next]_vars

(***************************************************************************)
(* Helpers of the properties.                                              *)
(***************************************************************************)
\* the requests issued by the step
NewCalls == SubSeq(calls', Len(calls) + 1, Len(calls'))

\* the step is a call of _apply_rule_action
IsDispatch == Len(dispatched') = Len(dispatched) + 1

ActionOf(r) == DictGet(rules[r], "action", None)

ConditionsOf(r) == DictGet(rules[r], "conditions", <<>>)

ConditionAt(e) == rules[e.r].conditions[e.c]

IsDateEval(e) == Lower(ConditionAt(e).field) = S_received_date

HasNoreply(text) ==
    Contains(Lower(text), S_noreply) \/ Contains(Lower(text), S_no_reply)

\* the text a From or Subject condition is evaluated against
TextAt(e) ==
    IF Lower(ConditionAt(e).field) = S_from
    THEN emails[e.m].sender
    ELSE emails[e.m].subject

IsNoreplyEval(e) ==
    /\ Lower(ConditionAt(e).field) \in {S_from, S_subject}
    /\ Lower(ConditionAt(e).condition) = S_noreply

(***************************************************************************)
(* C1: create_label is requested only for a name whose uppercased form is  *)
(* not a key of the label cache at the time of the request, whatever the   *)
(* letter case of the rule; hence a label is created at most once.         *)
(***************************************************************************)
C1_CreateOnlyWhenAbsent ==
    [][\A j \in 1..Len(NewCalls) :
          NewCalls[j].op = "create_label" =>
            /\ Upper(NewCalls[j].arg) \notin DOMAIN label_cache
            /\ \A k \in 1..(j - 1) :
                 ~(/\ NewCalls[k].op = "create_label"
                   /\ NewCalls[k].ok
                   /\ Upper(NewCalls[k].arg) = Upper(NewCalls[j].arg))]_vars

\* CreateLabel("Work") created the label, and a later CreateLabel("work")
\* or MoveTo("WORK") was served from the cache
C1_Witness ==
    /\ Cardinality({i \in 1..Len(calls) : calls[i].op = "create_label"}) = 1
    /\ \E i \in 1..Len(calls) :
         /\ calls[i].op = "create_label"
         /\ calls[i].ok
         /\ calls[i].arg = T_Work
    /\ \E k \in 2..Len(dispatched) :
         /\ dispatched[k][1] = dispatched[1][1]
         /\ \/ DictGet(ActionOf(dispatched[k][2]), "label", <<>>) = T_work
            \/ DictGet(ActionOf(dispatched[k][2]), "folder", <<>>) = T_WORK
    /\ Cardinality({i \in 1..Len(calls) : calls[i].op = "add_label"}) = 2

(***************************************************************************)
(* C2: a failed request to the Gmail service abandons only the action      *)
(* being applied: the loop stays on the same message and goes on with the  *)
(* next rule, so later rules and later messages are still handled.         *)
(***************************************************************************)
C2_FailureIsPerAction ==
    [][(IsDispatch /\ \E j \in 1..Len(NewCalls) : ~NewCalls[j].ok) =>
          /\ pc' = "rule"
          /\ mi' = mi
          /\ ri' = ri + 1]_vars

\* after a failed request, a later rule acted on the same message and a
\* later message was acted on
C2_Witness ==
    \E i, j, l \in 1..Len(calls) :
       /\ i < j
       /\ j < l
       /\ calls[i].op = "remove_marker"
       /\ ~calls[i].ok
       /\ calls[j].gmail_id = calls[i].gmail_id
       /\ calls[l].op # "create_label"
       /\ calls[l].gmail_id # calls[i].gmail_id

(***************************************************************************)
(* C3: when the pass is over, every rule with conditions has been checked  *)
(* against every message exactly once, in message order and then rule      *)
(* order, and the dispatches are exactly the matching pairs, in that       *)
(* order.                                                                  *)
(***************************************************************************)
C3_EveryPairCheckedInOrder ==
    pc = "done" =>
      /\ \A m \in 1..Len(emails) : \A r \in 1..Len(rules) :
           ConditionsOf(r) # <<>> =>
             Cardinality({k \in 1..Len(verdicts) :
                            verdicts[k].m = m /\ verdicts[k].r = r}) = 1
      /\ \A k \in 1..(Len(verdicts) - 1) :
           \/ verdicts[k].m < verdicts[k + 1].m
           \/ /\ verdicts[k].m = verdicts[k + 1].m
              /\ verdicts[k].r < verdicts[k + 1].r
      /\ \A k \in 1..Len(verdicts) :
           verdicts[k].matched =>
             Cardinality({d \in 1..Len(dispatched) :
                            dispatched[d] = <<verdicts[k].m, verdicts[k].r>>}) = 1
      /\ Len(dispatched) =
           Cardinality({k \in 1..Len(verdicts) : verdicts[k].matched})

(***************************************************************************)
(* C4: when the pass is over, the processed count is the size of the batch *)
(* and the matched count is the number of (message, rule) pairs whose rule *)
(* matched, whether or not the action succeeded.                           *)
(***************************************************************************)
C4_CountsAreExact ==
    pc = "done" =>
      /\ total_processed = Len(emails)
      /\ total_matched =
           Cardinality({k \in 1..Len(verdicts) : verdicts[k].matched})

(***************************************************************************)
(* C5: a message whose Date header does not parse fails only its           *)
(* ReceivedDate conditions: a rule that matches on the results of its From *)
(* and Subject conditions, with every ReceivedDate condition false, has    *)
(* its action dispatched for that message.                                 *)
(***************************************************************************)
ResultsWithoutDate(m, r) ==
    [c \in 1..Len(ConditionsOf(r)) |->
        IF Lower(ConditionsOf(r)[c].field) = S_received_date
        THEN FALSE
        ELSE match_rule(ConditionsOf(r)[c], emails[m].sender,
                        emails[m].subject, 0, 0)]

C5_BadDateFailsOnlyDateConditions ==
    pc = "done" =>
      \A m \in 1..Len(emails) : \A r \in 1..Len(rules) :
         ( /\ ~emails[m].date_received.rfc2822
           /\ ConditionsOf(r) # <<>>
           /\ rule_matched(rules[r], ResultsWithoutDate(m, r)) )
         => \E d \in 1..Len(dispatched) : dispatched[d] = <<m, r>>

(***************************************************************************)
(* C6: a rule matches iff it has conditions and, under predicate ALL in    *)
(* any letter case, every condition is true, or, under any other or no     *)
(* predicate, some condition is true; a condition on an unknown field is   *)
(* false; a rule without conditions is never dispatched.                   *)
(***************************************************************************)
ResultsOf(m, r) ==
    {e \in {evals[i] : i \in 1..Len(evals)} : e.m = m /\ e.r = r}

C6_RuleVerdict ==
    /\ \A k \in 1..Len(verdicts) :
         LET m == verdicts[k].m
             r == verdicts[k].r
             isAll == /\ "predicate" \in DOMAIN rules[r]
                      /\ Lower(rules[r].predicate) = <<"a","l","l">>
         IN  /\ {e.c : e \in ResultsOf(m, r)} = 1..Len(ConditionsOf(r))
             /\ verdicts[k].matched <=>
                  /\ ConditionsOf(r) # <<>>
                  /\ IF isAll
                     THEN \A e \in ResultsOf(m, r) : e.res
                     ELSE \E e \in ResultsOf(m, r) : e.res
    /\ \A i \in 1..Len(evals) :
         Lower(ConditionAt(evals[i]).field)
             \notin {S_from, S_subject, S_received_date} => ~evals[i].res
    /\ \A d \in 1..Len(dispatched) : ConditionsOf(dispatched[d][2]) # <<>>

\* conditions [true, false] did not match under ALL and matched under ANY
C6_Witness ==
    \E k1, k2 \in 1..Len(verdicts) :
       /\ verdicts[k1].m = verdicts[k2].m
       /\ Upper(DictGet(rules[verdicts[k1].r], "predicate", S_ANY)) = S_ALL
       /\ ~verdicts[k1].matched
       /\ Upper(DictGet(rules[verdicts[k2].r], "predicate", S_ANY)) # S_ALL
       /\ verdicts[k2].matched
       /\ \A k \in {k1, k2} :
            /\ \E e \in ResultsOf(verdicts[k].m, verdicts[k].r) : e.res
            /\ \E e \in ResultsOf(verdicts[k].m, verdicts[k].r) : ~e.res

(***************************************************************************)
(* C7: MoveTo with a folder that is, uppercased, SPAM, TRASH, IMPORTANT or *)
(* INBOX requests the addition of that system label to the message and     *)
(* nothing else: no label is created and the label cache is unchanged.     *)
(***************************************************************************)
C7_MoveToSystemLabel ==
    [][( /\ IsDispatch
         /\ DictGet(ActionOf(ri), "type", "None") = "MoveTo"
         /\ Upper(ActionOf(ri).folder) \in {S_SPAM, S_TRASH, S_IMPORTANT, S_INBOX} )
       => /\ Len(NewCalls) = 1
          /\ NewCalls[1].op = "add_label"
          /\ NewCalls[1].gmail_id = emails[mi].gmail_id
          /\ NewCalls[1].arg = Upper(ActionOf(ri).folder)
          /\ label_cache' = label_cache]_vars

\* MoveTo("spam") was dispatched while the cache had no entry SPAM
C7_Witness ==
    /\ S_SPAM \notin DOMAIN label_cache
    /\ \E d \in 1..Len(dispatched) :
         DictGet(ActionOf(dispatched[d][2]), "folder", <<>>) = T_spam
    /\ \E i \in 1..Len(calls) :
         calls[i].op = "add_label" /\ calls[i].arg = S_SPAM

(***************************************************************************)
(* C8, as claimed: under the operator noreply the result is true iff the   *)
(* lower-cased text contains "noreply" or "no-reply", for every values     *)
(* argument, the empty string and the empty list included.                 *)
(***************************************************************************)
C8_NoreplyIgnoresValues ==
    \A i \in 1..Len(evals) :
       IsNoreplyEval(evals[i]) =>
         (evals[i].res <=> HasNoreply(TextAt(evals[i])))

(***************************************************************************)
(* C8, amended: under the operator noreply the content of values is not    *)
(* read, but empty values (or an empty text) give false: the result is     *)
(* true iff values is non-empty and the lower-cased text contains          *)
(* "noreply" or "no-reply".                                                *)
(***************************************************************************)
C8_NoreplyNeedsNonEmptyValues ==
    \A i \in 1..Len(evals) :
       IsNoreplyEval(evals[i]) =>
         (evals[i].res <=>
            /\ Truthy(ConditionAt(evals[i]).value)
            /\ HasNoreply(TextAt(evals[i])))

\* noreply was evaluated to true on "No-Reply", to true on "NoReply@x", to
\* false on a text without either, and to false because values was empty
C8_Witness ==
    /\ \E i \in 1..Len(evals) :
         /\ IsNoreplyEval(evals[i])
         /\ evals[i].res
         /\ TextAt(evals[i]) = T_No_Reply
    /\ \E i \in 1..Len(evals) :
         /\ IsNoreplyEval(evals[i])
         /\ ~evals[i].res
         /\ ~Truthy(ConditionAt(evals[i]).value)
         /\ HasNoreply(TextAt(evals[i]))

(***************************************************************************)
(* C9: every ReceivedDate condition of one pass is evaluated against the   *)
(* same value of now, so the same condition on the same message gives the  *)
(* same result wherever in the pass it is evaluated.                       *)
(***************************************************************************)
C9_NowCapturedOnce ==
    \A i, j \in 1..Len(evals) :
       (IsDateEval(evals[i]) /\ IsDateEval(evals[j])) =>
          /\ evals[i].now = evals[j].now
          /\ ( /\ evals[i].m = evals[j].m
               /\ ConditionAt(evals[i]) = ConditionAt(evals[j]) )
             => evals[i].res = evals[j].res

(***************************************************************************)
(* C10: the pass runs to completion whatever fails on the way.  Every step *)
(* moves the loop strictly forward through the finitely many positions     *)
(* (message, rule, condition), and the only state the pass can stop in is  *)
(* its summary, with every message of the batch visited: no exception      *)
(* leaves process_emails and the loop is not cut short.                    *)
(***************************************************************************)
Stage == IF pc = "start" THEN 0 ELSE IF pc = "done" THEN 2 ELSE 1

Phase == IF pc = "rule" THEN 1 ELSE 0

Position == <<Stage, mi, Phase, ri, ci>>

LexLess(a, b) ==
    \E i \in 1..Len(a) : a[i] < b[i] /\ \A j \in 1..(i - 1) : a[j] = b[j]

PositionInRange ==
    /\ mi \in 1..(Len(emails) + 1)
    /\ ri \in 1..(Len(rules) + 1)
    /\ \/ ci = 1
       \/ /\ pc = "rule"
          /\ ri <= Len(rules)
          /\ ci \in 1..(Len(ConditionsOf(ri)) + 1)

\* the guards of the actions of Next: some step can be taken
CanStep ==
    \/ pc = "start"
    \/ pc = "email" /\ mi <= Len(emails)
    \/ pc = "email" /\ mi > Len(emails)
    \/ pc = "rule" /\ ri > Len(rules)
    \/ /\ pc = "rule"
       /\ ri <= Len(rules)
       /\ \/ ConditionsOf(ri) = <<>>
          \/ ci <= Len(ConditionsOf(ri)) /\ clock <= MaxClockSteps
          \/ ConditionsOf(ri) # <<>> /\ ci > Len(ConditionsOf(ri))

C10_PassCompletes ==
    /\ []PositionInRange
    /\ [][LexLess(Position, Position')]_vars
    /\ [](~CanStep => (pc = "done" /\ mi = Len(emails) + 1))

\* a pass completed although a request failed, a Date header did not parse
\* and a rule without action matched
C10_Witness ==
    /\ ~CanStep
    /\ pc = "done"
    /\ mi = Len(emails) + 1
    /\ \E i \in 1..Len(calls) : ~calls[i].ok
    /\ \E m \in 1..Len(emails) : ~emails[m].date_received.rfc2822
    /\ \E d \in 1..Len(dispatched) : ActionOf(dispatched[d][2]) = None

(***************************************************************************)
(* C11: for every integer N, the ReceivedDate condition "last N" is true   *)
(* iff the message time is at or after now - N days and "older than N" is  *)
(* true iff it is at or before now - N days; with the N token missing or   *)
(* not an integer the condition is false; no evaluation raises.            *)
(***************************************************************************)
S_older == <<"o","l","d","e","r">>

S_than == <<"t","h","a","n">>

\* the condition evaluated in e reads "last ..."
IsLastEval(e) ==
    LET tokens == Split(Lower(ConditionAt(e).condition))
    IN  /\ IsDateEval(e)
        /\ Len(tokens) >= 1
        /\ tokens[1] = S_last

\* the condition evaluated in e reads "older than ..."
IsOlderThanEval(e) ==
    LET tokens == Split(Lower(ConditionAt(e).condition))
    IN  /\ IsDateEval(e)
        /\ Len(tokens) >= 2
        /\ tokens[1] = S_older
        /\ tokens[2] = S_than

\* the token at position k of the condition is an integer
HasDays(e, k) ==
    LET tokens == Split(Lower(ConditionAt(e).condition))
    IN  Len(tokens) >= k /\ IntParses(tokens[k])

DaysOf(e, k) == IntOf(Split(Lower(ConditionAt(e).condition))[k])

TimeOf(e) == emails[e.m].date_received.instant

C11_DateWindows ==
    \A i \in 1..Len(evals) :
       LET e == evals[i]
       IN  /\ IsLastEval(e) =>
                /\ ~e.raised
                /\ e.res <=> ( /\ HasDays(e, 2)
                               /\ TimeOf(e) >= e.now - DaysOf(e, 2) * DayLen )
           /\ IsOlderThanEval(e) =>
                /\ ~e.raised
                /\ e.res <=> ( /\ HasDays(e, 3)
                               /\ TimeOf(e) <= e.now - DaysOf(e, 3) * DayLen )

(***************************************************************************)
(* C12: label application requests the addition of no label id but the one *)
(* the label cache maps from the uppercased label name at that moment;     *)
(* when the label is absent and label application's create_label request   *)
(* fails, the cache stays as it was and no add_label request is issued for *)
(* the action; no step removes or remaps an entry of the cache.            *)
(***************************************************************************)
\* the action being dispatched hands a user label to _apply_label
IsLabelDispatch ==
    /\ IsDispatch
    /\ ActionOf(ri) # None
    /\ \/ DictGet(ActionOf(ri), "type", "None") = "CreateLabel"
       \/ /\ DictGet(ActionOf(ri), "type", "None") = "MoveTo"
          /\ Upper(ActionOf(ri).folder) \notin DOMAIN system_labels

\* the name _apply_label looks up in the cache (line 218)
AppliedName ==
    Upper(IF DictGet(ActionOf(ri), "type", "None") = "CreateLabel"
          THEN ActionOf(ri).label
          ELSE ActionOf(ri).folder)

\* the requests of the step that _apply_label issued: for CreateLabel with
\* the label absent the first request of the step is line 211's own
ApplicationCalls ==
    IF /\ DictGet(ActionOf(ri), "type", "None") = "CreateLabel"
       /\ AppliedName \notin DOMAIN label_cache
    THEN Tail(NewCalls)
    ELSE NewCalls

C12_AddOnlyCachedId ==
    [][/\ IsLabelDispatch =>
            /\ \A j \in 1..Len(ApplicationCalls) :
                  ApplicationCalls[j].op = "add_label" =>
                    /\ AppliedName \in DOMAIN label_cache'
                    /\ ApplicationCalls[j].arg = label_cache'[AppliedName]
                    /\ ApplicationCalls[j].gmail_id = emails[mi].gmail_id
            /\ (\E j \in 1..Len(ApplicationCalls) :
                   /\ ApplicationCalls[j].op = "create_label"
                   /\ ~ApplicationCalls[j].ok) =>
                    /\ label_cache' = label_cache
                    /\ \A j \in 1..Len(NewCalls) : NewCalls[j].op # "add_label"
       /\ \A k \in DOMAIN label_cache :
            /\ k \in DOMAIN label_cache'
            /\ label_cache'[k] = label_cache[k]]_vars

\* with SPAM in the cache and WORK absent, label application's own
\* create_label request has just failed: the cache still lacks WORK and the
\* message got no add_label request from this action
C12_Witness ==
    /\ Len(dispatched) >= 1
    /\ pc = "rule"
    /\ dispatched[Len(dispatched)] = <<mi, ri - 1>>
    /\ Len(calls) >= 1
    /\ calls[Len(calls)].op = "create_label"
    /\ calls[Len(calls)].arg = T_WORK
    /\ ~calls[Len(calls)].ok
    /\ S_SPAM \in DOMAIN label_cache
    /\ T_WORK \notin DOMAIN label_cache

(***************************************************************************)
(* C13: the dispatch of one action for one message issues at most one      *)
(* create_label request, for CreateLabel and for MoveTo with a user        *)
(* folder, also when the request fails.                                    *)
(***************************************************************************)
C13_OneCreatePerDispatch ==
    [][IsDispatch =>
          Cardinality({j \in 1..Len(NewCalls) :
                         NewCalls[j].op = "create_label"}) <= 1]_vars

====
